---- MODULE Spec2Model ----
(***************************************************************************)
(* farm-keeper memory service (src/memory_service.py) with the ingestion   *)
(* script that writes the same table (src/ingest_rag_sqlite.py).           *)
(*                                                                         *)
(* State: the rag_chunks table and its schema, the process-wide AppState   *)
(* (model, index, loaded_at), the startup hook's position, the position    *)
(* and locals of every request a worker thread is running, and the         *)
(* ingestion script's open transaction.                                    *)
(*                                                                         *)
(* Handlers are synchronous FastAPI endpoints, so they run on a thread     *)
(* pool: one action per access to shared state (the table or an attribute  *)
(* of `state`); the local computation between two accesses belongs to the  *)
(* action of the access before it.                                         *)
(***************************************************************************)
EXTENDS Integers, Sequences, FiniteSets, TLC

\* ------------------------------------------------------------------ bounds
\* Requests and ingestion runs started in one behaviour (their ordinals also
\* serve as uuid4 values and as the clock readings they take).
MaxRequests == 3

\* ------------------------------------------------------------- text values
\* Strings the code trims and lower-cases are sequences of characters.
Normal == <<"n", "o", "r", "m", "a", "l">>
High == <<"h", "i", "g", "h">>
PRIORITIES == {Normal, High}

UpperAlpha == <<"A","B","C","D","E","F","G","H","I","J","K","L","M",
                "N","O","P","Q","R","S","T","U","V","W","X","Y","Z">>
LowerAlpha == <<"a","b","c","d","e","f","g","h","i","j","k","l","m",
                "n","o","p","q","r","s","t","u","v","w","x","y","z">>
Whitespace == {" ", "\t", "\n"}

LowerChar(c) ==
    IF \E i \in 1..Len(UpperAlpha) : UpperAlpha[i] = c
    THEN LowerAlpha[CHOOSE i \in 1..Len(UpperAlpha) : UpperAlpha[i] = c]
    ELSE c

\* str.lower()
Lower(s) == [i \in 1..Len(s) |-> LowerChar(s[i])]

RECURSIVE LStrip(_)
LStrip(s) == IF s # <<>> /\ Head(s) \in Whitespace THEN LStrip(Tail(s)) ELSE s

RECURSIVE RStrip(_)
RStrip(s) ==
    IF s # <<>> /\ s[Len(s)] \in Whitespace
    THEN RStrip(SubSeq(s, 1, Len(s) - 1))
    ELSE s

\* str.strip()
Strip(s) == RStrip(LStrip(s))

\* A plausible slip: the priority lower-cased but not trimmed.
NormalizePriorityNoStrip(raw) == Lower(IF raw = <<>> THEN Normal ELSE raw)

\* (req.priority or "normal").strip().lower()
NormalizePriority(raw) == Lower(Strip(IF raw = <<>> THEN Normal ELSE raw))

\* -------------------------------------------------------------- embeddings
\* The embedding provider is a deterministic stub: every text has one vector
\* of the model's dimension and of one Euclidean norm, Unit, so a dot product
\* of Unit * Unit stands for the score 1.0.  "old" is a model of another
\* dimension that wrote some of the stores the service may be started on.
Encode(m, t) ==
    IF m = "cur"
    THEN CASE t = "cow" -> <<3, 4>>
           [] t = "hay" -> <<4, 3>>
           [] OTHER     -> <<5, 0>>
    ELSE CASE t = "cow" -> <<3, 4, 0>>
           [] t = "hay" -> <<0, 3, 4>>
           [] OTHER     -> <<0, 0, 5>>

RECURSIVE SumSeq(_)
SumSeq(s) == IF s = <<>> THEN 0 ELSE Head(s) + SumSeq(Tail(s))

\* u @ v for two vectors of one length
Dot(u, v) == SumSeq([i \in 1..Len(u) |-> u[i] * v[i]])

\* floor of the square root
ISqrt(n) == CHOOSE r \in 0..n : r * r <= n /\ (r + 1) * (r + 1) > n

\* np.linalg.norm(v), and v / norm when norm > 0, in units of 1/Unit
Norm(v) == ISqrt(Dot(v, v))
Unit == Norm(<<3, 4>>)
Renormalize(v) ==
    IF Norm(v) > 0 THEN [i \in 1..Len(v) |-> (v[i] * Unit) \div Norm(v)] ELSE v

\* ------------------------------------------------------------------- table
\* rag_chunks in rowid order.  A row of a table that has no priority column
\* yet carries NoColumn there.
NoColumn == <<>>
OldSchema == [ux |-> FALSE, priority |-> FALSE]
CurSchema == [ux |-> TRUE, priority |-> TRUE]

KeyOf(r) == <<r.source_path, r.kind, r.chunk_index>>

RowsWithKey(rows, k) == {i \in 1..Len(rows) : KeyOf(rows[i]) = k}

UniqueKeys(rows) ==
    \A i, j \in 1..Len(rows) : KeyOf(rows[i]) = KeyOf(rows[j]) => i = j

\* uuid.uuid4().hex of the request with ordinal n; ingestion's doc_id
Uuid(n) == <<"uuid", n, 0>>
DocId(rel, idx, sha) == <<rel, idx, sha>>

\* A plausible slip: the migration writes the default over every row's
\* priority, also where the column was there.
EnsureSchemaOverwritesPriority(sch, rows) ==
    [ok |-> TRUE,
     schema |-> [ux |-> TRUE, priority |-> TRUE],
     rows |-> [i \in 1..Len(rows) |-> [rows[i] EXCEPT !.priority = Normal]]]

\* _ensure_schema: the unique index on the natural key (refused when the
\* table already holds two rows of one key), then the priority column, whose
\* default fills the rows that had none.
EnsureSchema(sch, rows) ==
    IF ~sch.ux /\ ~UniqueKeys(rows)
    THEN [ok |-> FALSE, schema |-> sch, rows |-> rows]
    ELSE [ok |-> TRUE,
          schema |-> CurSchema,
          rows |-> IF sch.priority
                   THEN rows
                   ELSE [i \in 1..Len(rows) |->
                           [rows[i] EXCEPT !.priority = Normal]]]

\* A plausible slip: the conflict clause left out, every store inserts.
UpsertAlwaysInsert(rows, rec) == [ok |-> TRUE, rows |-> Append(rows, rec)]

\* A plausible slip: INSERT OR REPLACE, the row rewritten with the new id.
UpsertReplace(rows, rec) ==
    [ok |-> TRUE,
     rows |-> IF RowsWithKey(rows, KeyOf(rec)) # {}
              THEN [i \in 1..Len(rows) |->
                      IF KeyOf(rows[i]) = KeyOf(rec) THEN rec ELSE rows[i]]
              ELSE Append(rows, rec)]

\* A plausible slip: ON CONFLICT DO NOTHING, the first write of a key wins.
UpsertFirstWins(rows, rec) ==
    [ok |-> TRUE,
     rows |-> IF RowsWithKey(rows, KeyOf(rec)) # {} THEN rows ELSE Append(rows, rec)]

\* INSERT ... ON CONFLICT(source_path, kind, chunk_index) DO UPDATE SET
\* priority, text, emb, dim, created_at.  A clash on the primary key id alone
\* is not covered by the conflict clause: sqlite3.IntegrityError.
Upsert(rows, rec) ==
    IF RowsWithKey(rows, KeyOf(rec)) # {}
    THEN [ok |-> TRUE,
          rows |-> [i \in 1..Len(rows) |->
                      IF KeyOf(rows[i]) = KeyOf(rec)
                      THEN [rows[i] EXCEPT !.priority = rec.priority,
                                           !.text = rec.text,
                                           !.emb = rec.emb,
                                           !.dim = rec.dim,
                                           !.created_at = rec.created_at]
                      ELSE rows[i]]]
    ELSE IF \E i \in 1..Len(rows) : rows[i].id = rec.id
         THEN [ok |-> FALSE, rows |-> rows]
         ELSE [ok |-> TRUE, rows |-> Append(rows, rec)]

\* SelectSeq with a predicate on rows
RECURSIVE DeleteBySource(_, _)
DeleteBySource(rows, rel) ==
    IF rows = <<>> THEN <<>>
    ELSE IF Head(rows).source_path = rel
         THEN DeleteBySource(Tail(rows), rel)
         ELSE <<Head(rows)>> \o DeleteBySource(Tail(rows), rel)

\* One file of the scan: DELETE FROM rag_chunks WHERE source_path = rel, then
\* one INSERT per chunk, without a priority (the column's default applies
\* where the column exists).
IngestFile(rows, sch, f, m, now) ==
    DeleteBySource(rows, f.rel) \o
    [idx \in 1..Len(f.chunks) |->
        [id |-> DocId(f.rel, idx - 1, f.sha),
         source_path |-> f.rel,
         kind |-> f.kind,
         chunk_index |-> idx - 1,
         priority |-> IF sch.priority THEN Normal ELSE NoColumn,
         text |-> f.chunks[idx],
         emb |-> Encode(m, f.chunks[idx]),
         dim |-> Len(Encode(m, f.chunks[idx])),
         created_at |-> now]]

\* main(): every file of the scan, in one transaction
RECURSIVE Ingest(_, _, _, _, _)
Ingest(rows, sch, files, m, now) ==
    IF files = <<>> THEN rows
    ELSE Ingest(IngestFile(rows, sch, Head(files), m, now), sch, Tail(files), m, now)

\* ------------------------------------------------------------ index build
\* A plausible slip: the dimension check left out.
BuildIndexNoDimCheck(rows) ==
    IF rows = <<>>
    THEN [ok |-> FALSE, err |-> "empty"]
    ELSE [ok |-> TRUE,
          index |-> [source_path |-> [i \in 1..Len(rows) |-> rows[i].source_path],
                     kind |-> [i \in 1..Len(rows) |-> rows[i].kind],
                     chunk_index |-> [i \in 1..Len(rows) |-> rows[i].chunk_index],
                     priority |-> [i \in 1..Len(rows) |->
                                     IF rows[i].priority \in PRIORITIES
                                     THEN rows[i].priority ELSE Normal],
                     text |-> [i \in 1..Len(rows) |-> rows[i].text],
                     emb_matrix |-> [i \in 1..Len(rows) |->
                                       Renormalize(SubSeq(rows[i].emb, 1, rows[i].dim))]]]

\* A plausible slip: the text column filled from the wrong field of the row.
BuildIndexWrongColumn(rows) ==
    IF rows = <<>>
    THEN [ok |-> FALSE, err |-> "empty"]
    ELSE IF \E i \in 1..Len(rows) : rows[i].dim # rows[1].dim
         THEN [ok |-> FALSE, err |-> "dim_mismatch"]
         ELSE [ok |-> TRUE,
               index |->
                 [source_path |-> [i \in 1..Len(rows) |-> rows[i].source_path],
                  kind |-> [i \in 1..Len(rows) |-> rows[i].kind],
                  chunk_index |-> [i \in 1..Len(rows) |-> rows[i].chunk_index],
                  priority |-> [i \in 1..Len(rows) |->
                                  IF rows[i].priority \in PRIORITIES
                                  THEN rows[i].priority ELSE Normal],
                  text |-> [i \in 1..Len(rows) |-> rows[i].kind],
                  emb_matrix |-> [i \in 1..Len(rows) |->
                                    Renormalize(SubSeq(rows[i].emb, 1, rows[i].dim))]]]

\* A plausible slip: the check for an empty table left out.
BuildIndexAllowsEmpty(rows) ==
    IF \E i \in 1..Len(rows) : rows[i].dim # rows[1].dim
    THEN [ok |-> FALSE, err |-> "dim_mismatch"]
    ELSE [ok |-> TRUE,
          index |->
            [source_path |-> [i \in 1..Len(rows) |-> rows[i].source_path],
             kind |-> [i \in 1..Len(rows) |-> rows[i].kind],
             chunk_index |-> [i \in 1..Len(rows) |-> rows[i].chunk_index],
             priority |-> [i \in 1..Len(rows) |->
                             IF rows[i].priority \in PRIORITIES
                             THEN rows[i].priority ELSE Normal],
             text |-> [i \in 1..Len(rows) |-> rows[i].text],
             emb_matrix |-> [i \in 1..Len(rows) |->
                               Renormalize(SubSeq(rows[i].emb, 1, rows[i].dim))]]]

\* _load_index_from_db after its SELECT: "rag_chunks is empty", "Inconsistent
\* dim in DB", or the RagIndex of the rows, in the order read.
BuildIndex(rows) ==
    IF rows = <<>>
    THEN [ok |-> FALSE, err |-> "empty"]
    ELSE IF \E i \in 1..Len(rows) : rows[i].dim # rows[1].dim
         THEN [ok |-> FALSE, err |-> "dim_mismatch"]
         ELSE [ok |-> TRUE,
               index |->
                 [source_path |-> [i \in 1..Len(rows) |-> rows[i].source_path],
                  kind |-> [i \in 1..Len(rows) |-> rows[i].kind],
                  chunk_index |-> [i \in 1..Len(rows) |-> rows[i].chunk_index],
                  priority |-> [i \in 1..Len(rows) |->
                                  IF rows[i].priority \in PRIORITIES
                                  THEN rows[i].priority ELSE Normal],
                  text |-> [i \in 1..Len(rows) |-> rows[i].text],
                  emb_matrix |-> [i \in 1..Len(rows) |->
                                    Renormalize(SubSeq(rows[i].emb, 1, rows[i].dim))]]]

\* int(state.index.emb_matrix.shape[0]), shape[1]
Chunks(ix) == Len(ix.emb_matrix)
IndexDim(ix) == Len(ix.emb_matrix[1])

\* ------------------------------------------------------------------ inputs
\* Files the ingestion script finds under farm_memory/ (rel, the kind of the
\* scanned directory, the chunks of the text, the content hash).
FileA1 == [rel |-> "journal/a.md", kind |-> "journal", chunks |-> <<"cow">>, sha |-> 1]
FileA2 == [rel |-> "journal/a.md", kind |-> "journal", chunks |-> <<"hay", "cow">>, sha |-> 2]
FileB == [rel |-> "knowledge/b.md", kind |-> "knowledge", chunks |-> <<"bee">>, sha |-> 3]
Scans == {<<FileA1>>, <<FileA2, FileB>>}

\* The table the service is started on: as init_rag_db.py leaves it, after an
\* ingestion with the current model, after one with a model of another
\* dimension, and after both (the file of the first run gone from the disk
\* by the second).
InitialStores ==
    {<<>>,
     Ingest(<<>>, OldSchema, <<FileA1, FileB>>, "cur", 0),
     Ingest(<<>>, OldSchema, <<FileA1>>, "old", 0),
     Ingest(Ingest(<<>>, OldSchema, <<FileA1>>, "old", 0), OldSchema, <<FileB>>, "cur", 0)}

\* Requests
\* store: the bodies posted (a key written twice with another text and
\* another priority, a second key, a priority outside PRIORITIES)
KeyA == <<"journal/a.md", "journal", 0>>
KeyJ == <<"j1.md", "note", 0>>
StoreRequests ==
    {[key |-> KeyA, text |-> "cow", priority |-> <<>>],
     [key |-> KeyA, text |-> "hay", priority |-> <<" ", "H", "i", "g", "h", " ">>],
     [key |-> KeyJ, text |-> "cow", priority |-> <<"H", "I", "G", "H">>],
     [key |-> KeyJ, text |-> "hay", priority |-> Normal],
     [key |-> KeyJ, text |-> "hay", priority |-> <<"l", "o", "w">>]}
\* retrieve: the bodies posted (topk is validated to 1..MaxTopK, kind "" is
\* no filter)
MaxTopK == 50
RetrieveRequests ==
    {[query |-> "cow", topk |-> 1, kind |-> ""],
     [query |-> "hay", topk |-> MaxTopK, kind |-> ""],
     [query |-> "cow", topk |-> 2, kind |-> "journal"],
     [query |-> "hay", topk |-> 1, kind |-> "diary"]}

\* The threads of the pool that run the handlers
Workers == {1, 2}

\* ------------------------------------------------------------------- state
VARIABLES
    db,         \* rag_chunks: the committed rows, in rowid order
    schema,     \* [ux, priority]: the unique index and the priority column exist
    ingest,     \* <<>> or <<files, n>>: the scan whose transaction is open
    model,      \* state.model is not None
    index,      \* state.index: <<>> for None, <<RagIndex>> otherwise
    loaded_at,  \* state.loaded_at: -1 for None
    boot,       \* where _startup is
    nreq,       \* requests and ingestion runs started so far
    th          \* per worker thread: the request it runs, or ran last (seen:
                \* the values of state.index the request has read so far)

vars == <<db, schema, ingest, model, index, loaded_at, boot, nreq, th>>

Idle ==
    [pc |-> "idle", op |-> "none", n |-> 0,
     key |-> <<>>, text |-> "", pr |-> <<>>, vec |-> <<>>, topk |-> 0, kind |-> "",
     committed |-> FALSE, stored |-> <<>>, built |-> <<>>,
     mask |-> <<>>, sel |-> <<>>, scores |-> <<>>, cur |-> <<>>, out |-> <<>>,
     seen |-> {}, res |-> "none", err |-> "", body |-> <<>>]

\* AppState.ready()
Ready == model /\ index # <<>>

Init ==
    /\ db \in InitialStores
    /\ schema = OldSchema
    /\ ingest = <<>>
    /\ model = FALSE
    /\ index = <<>>
    /\ loaded_at = -1
    /\ boot = "schema"
    /\ nreq = 0
    /\ th = [w \in Workers |-> Idle]

\* A statement that has to write waits for the ingestion's transaction and
\* gives up after the connection's timeout: "database is locked".
Locked == ingest # <<>>

\* ----------------------------------------------------------------- startup
\* _startup, lines 181-187: _ensure_schema and commit.  Any sqlite3 statement
\* may also fail for a reason of its own (I/O); the hook then raises.
StartupSchema ==
    /\ boot = "schema"
    /\ \E fail \in BOOLEAN :
         IF fail \/ (Locked /\ schema # CurSchema) \/ ~EnsureSchema(schema, db).ok
         THEN /\ boot' = "failed"
              /\ UNCHANGED <<db, schema>>
         ELSE /\ boot' = "model"
              /\ schema' = EnsureSchema(schema, db).schema
              /\ db' = EnsureSchema(schema, db).rows
    /\ UNCHANGED <<ingest, model, index, loaded_at, nreq, th>>

\* lines 189-190: the model is loaded and warmed up, or the hook raises
StartupModel ==
    /\ boot = "model"
    /\ \E fail \in BOOLEAN :
         IF fail
         THEN boot' = "failed" /\ model' = model
         ELSE boot' = "load" /\ model' = TRUE
    /\ UNCHANGED <<db, schema, ingest, index, loaded_at, nreq, th>>

\* _load_index_from_db, lines 121-133: _ensure_schema, commit, SELECT.  The
\* rows read, or "db" for a failed statement.
ReadAll(fail) ==
    IF fail \/ (Locked /\ schema # CurSchema) \/ ~EnsureSchema(schema, db).ok
    THEN [ok |-> FALSE, err |-> "db"]
    ELSE BuildIndex(EnsureSchema(schema, db).rows)

\* what _load_index_from_db leaves in the table: the schema it ensured
LoadEffect(r) ==
    IF r.ok \/ r.err # "db"
    THEN /\ schema' = EnsureSchema(schema, db).schema
         /\ db' = EnsureSchema(schema, db).rows
    ELSE UNCHANGED <<db, schema>>

\* lines 192-193: no request is served before the hook returns, so the two
\* assignments are one step
StartupLoad ==
    /\ boot = "load"
    /\ \E fail \in BOOLEAN :
         LET r == ReadAll(fail) IN
         /\ LoadEffect(r)
         /\ IF r.ok
            THEN boot' = "done" /\ index' = <<r.index>> /\ loaded_at' = 0
            ELSE boot' = "failed" /\ UNCHANGED <<index, loaded_at>>
    /\ UNCHANGED <<ingest, model, nreq, th>>

\* --------------------------------------------------------------- ingestion
\* ingest_rag_sqlite.main(): the first DELETE opens the transaction, the one
\* commit at the end publishes every file's rows at once.
IngestBegin ==
    /\ ingest = <<>>
    /\ nreq < MaxRequests
    /\ \E files \in Scans : ingest' = <<files, nreq + 1>>
    /\ nreq' = nreq + 1
    /\ UNCHANGED <<db, schema, model, index, loaded_at, boot, th>>

IngestCommit ==
    /\ ingest # <<>>
    /\ db' = Ingest(db, schema, ingest[1], "cur", ingest[2])
    /\ ingest' = <<>>
    /\ UNCHANGED <<schema, model, index, loaded_at, boot, nreq, th>>

\* ---------------------------------------------------------------- requests
\* A worker thread takes a request when the startup hook is over (the
\* handlers themselves allow for a hook that did not get to the model or to
\* the index) and its last response is out.
Free(w) == th[w].pc \in {"idle", "done"}

\* The pool hands a request to the free thread that has rested longest.
CanBegin(w) ==
    /\ boot \in {"done", "failed"}
    /\ Free(w)
    /\ \A v \in Workers \ {w} :
          Free(v) => th[w].n < th[v].n \/ (th[w].n = th[v].n /\ w < v)
    /\ nreq < MaxRequests

\* The response is out: the request's input and what it was answered stay.
Finished(t, res, body) ==
    [Idle EXCEPT !.pc = "done", !.op = t.op, !.n = t.n,
                 !.key = t.key, !.text = t.text, !.pr = t.pr,
                 !.topk = t.topk, !.kind = t.kind,
                 !.committed = t.committed, !.res = res, !.body = body]

\* store, lines 227-244: readiness, the priority, the embedding, the new id
StoreBegin(w) ==
    /\ CanBegin(w)
    /\ \E req \in StoreRequests, encodeFails \in BOOLEAN :
         LET t == [Idle EXCEPT !.op = "store", !.n = nreq + 1, !.key = req.key,
                               !.text = req.text,
                               !.pr = NormalizePriority(req.priority)]
         IN th' = [th EXCEPT ![w] =
                IF ~Ready THEN Finished([t EXCEPT !.pr = <<>>], "not_ready", <<>>)
                ELSE IF t.pr \notin PRIORITIES
                     THEN Finished(t, "invalid_priority", <<>>)
                     ELSE IF encodeFails
                          THEN Finished(t, "embedding_failed", <<>>)
                          ELSE [t EXCEPT !.pc = "s_upsert",
                                         !.vec = Encode("cur", req.text)]]
    /\ nreq' = nreq + 1
    /\ UNCHANGED <<db, schema, ingest, model, index, loaded_at, boot>>

\* the row of lines 262-272
NewRow(t) ==
    [id |-> Uuid(t.n),
     source_path |-> t.key[1], kind |-> t.key[2], chunk_index |-> t.key[3],
     priority |-> t.pr, text |-> t.text,
     emb |-> t.vec, dim |-> Len(t.vec), created_at |-> t.n]

\* lines 246-274 and their handlers 285-292: _ensure_schema, the upsert, the
\* commit; a failed statement rolls back
StoreUpsert(w) ==
    /\ th[w].pc = "s_upsert"
    /\ \E fail \in BOOLEAN :
         LET e == EnsureSchema(schema, db)
             u == Upsert(e.rows, NewRow(th[w]))
         IN IF fail \/ Locked \/ ~e.ok
            THEN /\ th' = [th EXCEPT ![w] = Finished(th[w], "db_error", <<>>)]
                 /\ UNCHANGED <<db, schema>>
            ELSE IF ~u.ok
                 THEN /\ th' = [th EXCEPT ![w] = Finished(th[w], "integrity_error", <<>>)]
                      /\ schema' = e.schema
                      /\ db' = e.rows
                 ELSE /\ th' = [th EXCEPT ![w] = [th[w] EXCEPT !.pc = "s_reread",
                                                              !.committed = TRUE]]
                      /\ schema' = e.schema
                      /\ db' = u.rows
    /\ UNCHANGED <<ingest, model, index, loaded_at, boot, nreq>>

\* lines 276-283, under the same handlers: the row is read back
StoreReread(w) ==
    /\ th[w].pc = "s_reread"
    /\ \E fail \in BOOLEAN :
         LET hit == RowsWithKey(db, th[w].key)
             i == CHOOSE i \in hit : \A j \in hit : i <= j
         IN th' = [th EXCEPT ![w] =
                IF fail THEN Finished(th[w], "db_error", <<>>)
                ELSE IF hit = {}
                     THEN Finished(th[w], "row_not_found", <<>>)
                     ELSE [th[w] EXCEPT !.pc = "load",
                                        !.stored = <<db[i].id, db[i].dim>>]]
    /\ UNCHANGED <<db, schema, ingest, model, index, loaded_at, boot, nreq>>

\* reload_index, lines 215-216
ReloadBegin(w) ==
    /\ CanBegin(w)
    /\ LET t == [Idle EXCEPT !.op = "reload", !.n = nreq + 1]
       IN th' = [th EXCEPT ![w] =
              IF ~model THEN Finished(t, "not_ready", <<>>)
              ELSE [t EXCEPT !.pc = "load"]]
    /\ nreq' = nreq + 1
    /\ UNCHANGED <<db, schema, ingest, model, index, loaded_at, boot>>

\* A plausible slip: the failed rebuild clears the shared reference.
RebuildFailedClears(w, err) ==
    /\ th' = [th EXCEPT ![w] =
           [Finished(th[w], IF th[w].op = "store" THEN "stored_reload_failed"
                            ELSE "reload_failed", <<>>) EXCEPT !.err = err]]
    /\ index' = <<>>
    /\ loaded_at' = -1

\* A plausible slip: the failed rebuild drops the snapshot it could not
\* replace.
RebuildFailedDropsIndex(w, err) ==
    /\ th' = [th EXCEPT ![w] =
           [Finished(th[w], IF th[w].op = "store" THEN "stored_reload_failed"
                            ELSE "reload_failed", <<>>) EXCEPT !.err = err]]
    /\ index' = <<>>
    /\ UNCHANGED loaded_at

\* lines 297-298 and 221-222: _load_index_from_db raised before either
\* assignment; the exception's text goes into the response
RebuildFailed(w, err) ==
    /\ th' = [th EXCEPT ![w] =
           [Finished(th[w], IF th[w].op = "store" THEN "stored_reload_failed"
                            ELSE "reload_failed", <<>>) EXCEPT !.err = err]]
    /\ UNCHANGED <<index, loaded_at>>

\* the call of _load_index_from_db in lines 295 and 218
Load(w) ==
    /\ th[w].pc = "load"
    /\ \E fail \in BOOLEAN :
         LET r == ReadAll(fail) IN
         /\ LoadEffect(r)
         /\ IF r.ok
            THEN /\ th' = [th EXCEPT ![w] = [th[w] EXCEPT !.pc = "install",
                                                         !.built = <<r.index>>]]
                 /\ UNCHANGED <<index, loaded_at>>
            ELSE RebuildFailed(w, r.err)
    /\ UNCHANGED <<ingest, model, boot, nreq>>

\* state.index = ..., lines 295 and 218
Install(w) ==
    /\ th[w].pc = "install"
    /\ index' = th[w].built
    /\ th' = [th EXCEPT ![w] = [th[w] EXCEPT !.pc = "stamp", !.built = <<>>]]
    /\ UNCHANGED <<db, schema, ingest, model, loaded_at, boot, nreq>>

\* state.loaded_at = time.time(), lines 296 and 219; store then returns
\* (line 300)
Stamp(w) ==
    /\ th[w].pc = "stamp"
    /\ loaded_at' = th[w].n
    /\ th' = [th EXCEPT ![w] =
           IF th[w].op = "store"
           THEN Finished(th[w], "ok", th[w].stored)
           ELSE [th[w] EXCEPT !.pc = "r_count"]]
    /\ UNCHANGED <<db, schema, ingest, model, index, boot, nreq>>

\* A plausible slip: the count taken from the table, not from the snapshot.
ReloadCountFromTable(w) ==
    /\ th[w].pc = "r_count"
    /\ th' = [th EXCEPT ![w] = Finished(th[w], "ok", <<Len(db)>>)]
    /\ UNCHANGED <<db, schema, ingest, model, index, loaded_at, boot, nreq>>

\* line 220: the count is read from state.index again
ReloadCount(w) ==
    /\ th[w].pc = "r_count"
    /\ th' = [th EXCEPT ![w] = Finished(th[w], "ok", <<Chunks(index[1])>>)]
    /\ UNCHANGED <<db, schema, ingest, model, index, loaded_at, boot, nreq>>

\* ---------------------------------------------------------------- retrieve
\* A plausible slip: topk ignored, every candidate returned.
MinIgnoresTopK(a, b) == b

\* min(topk_req, ...)
Min(a, b) == IF a <= b THEN a ELSE b

\* A plausible slip: the positions of all rows, whatever the mask says.
FlatNonZeroAll(mask, from) == [i \in 1..(Len(mask) - from + 1) |-> from + i - 1]

\* np.flatnonzero(mask)
RECURSIVE FlatNonZero(_, _)
FlatNonZero(mask, from) ==
    IF from > Len(mask) THEN <<>>
    ELSE IF mask[from] THEN <<from>> \o FlatNonZero(mask, from + 1)
         ELSE FlatNonZero(mask, from + 1)

\* A plausible slip: the scores not negated, the k lowest in rising order.
BottomKSelections(scores, k) ==
    {s \in [1..k -> 1..Len(scores)] :
        /\ \A a, b \in 1..k : s[a] = s[b] => a = b
        /\ \A a, b \in 1..k : a < b => scores[s[a]] <= scores[s[b]]
        /\ \A j \in 1..Len(scores) :
             (\A a \in 1..k : s[a] # j) => scores[j] >= scores[s[k]]}

\* A plausible slip: the argsort left out, the k highest in any order.
PartitionOnlySelections(scores, k) ==
    {s \in [1..k -> 1..Len(scores)] :
        /\ \A a, b \in 1..k : s[a] = s[b] => a = b
        /\ \A j \in 1..Len(scores), a \in 1..k :
             (\A b \in 1..k : s[b] # j) => scores[j] <= scores[s[a]]}

\* np.argpartition(-scores, kth=k-1)[:k], then reordered by np.argsort of the
\* negated scores: k distinct positions holding the k highest scores, in
\* falling order.  Neither call fixes the order of equal scores, so every
\* such order is an outcome.
TopKSelections(scores, k) ==
    {s \in [1..k -> 1..Len(scores)] :
        /\ \A a, b \in 1..k : s[a] = s[b] => a = b
        /\ \A a, b \in 1..k : a < b => scores[s[a]] >= scores[s[b]]
        /\ \A j \in 1..Len(scores) :
             (\A a \in 1..k : s[a] # j) => scores[j] <= scores[s[k]]}

\* retrieve, lines 305-315
RetrieveBegin(w) ==
    /\ CanBegin(w)
    /\ \E req \in RetrieveRequests, encodeFails \in BOOLEAN :
         LET t == [Idle EXCEPT !.op = "retrieve", !.n = nreq + 1,
                               !.text = req.query, !.topk = req.topk,
                               !.kind = req.kind]
         IN th' = [th EXCEPT ![w] =
                IF ~Ready THEN Finished(t, "not_ready", <<>>)
                ELSE IF encodeFails
                     THEN Finished(t, "embedding_failed", <<>>)
                     ELSE [t EXCEPT !.pc = IF req.kind # "" THEN "t_mask" ELSE "t_score",
                                    !.vec = Encode("cur", req.query)]]
    /\ nreq' = nreq + 1
    /\ UNCHANGED <<db, schema, ingest, model, index, loaded_at, boot>>

\* lines 318-320: the mask over state.index.kind
RetrieveMask(w) ==
    /\ th[w].pc = "t_mask"
    /\ LET ix == index[1]
           mask == [i \in 1..Len(ix.kind) |-> ix.kind[i] = th[w].kind]
       IN th' = [th EXCEPT ![w] =
              IF \A i \in 1..Len(mask) : ~mask[i]
              THEN Finished(th[w], "ok", <<>>)
              ELSE [th[w] EXCEPT !.pc = "t_score", !.mask = mask,
                                 !.seen = @ \cup {ix}]]
    /\ UNCHANGED <<db, schema, ingest, model, index, loaded_at, boot, nreq>>

\* lines 322-337: state.index.emb_matrix is read, the candidates are scored
\* and the top k chosen.  A mask of another length than the matrix
\* (IndexError) or a matrix of another dimension than the query vector
\* (ValueError) is an unhandled exception: the response is a 500.
RetrieveScore(w) ==
    /\ th[w].pc = "t_score"
    /\ LET ix == index[1]
           t == th[w]
           all == [i \in 1..Chunks(ix) |-> TRUE]
           mask == IF t.kind # "" THEN t.mask ELSE all
           global == FlatNonZero(mask, 1)
           scores == [j \in 1..Len(global) |-> Dot(ix.emb_matrix[global[j]], t.vec)]
           k == Min(t.topk, Len(global))
       IN IF Len(mask) # Chunks(ix) \/ IndexDim(ix) # Len(t.vec)
          THEN th' = [th EXCEPT ![w] = Finished(t, "server_error", <<>>)]
          ELSE \E s \in TopKSelections(scores, k) :
                 th' = [th EXCEPT ![w] =
                     [t EXCEPT !.pc = "t_out",
                               !.sel = [a \in 1..k |-> global[s[a]]],
                               !.scores = [a \in 1..k |-> scores[s[a]]],
                               !.seen = @ \cup {ix}]]
    /\ UNCHANGED <<db, schema, ingest, model, index, loaded_at, boot, nreq>>

\* The columns a RetrievedChunk is filled from, in the order of lines 345-349
Columns == <<"source_path", "kind", "chunk_index", "priority", "text">>

\* state.index.<column>
Column(ix, c) ==
    CASE c = 1 -> ix.source_path
      [] c = 2 -> ix.kind
      [] c = 3 -> ix.chunk_index
      [] c = 4 -> ix.priority
      [] OTHER -> ix.text

RetrievedChunk(score, cur) ==
    [score |-> score, source_path |-> cur[1], kind |-> cur[2],
     chunk_index |-> cur[3], priority |-> cur[4], text |-> cur[5]]

\* lines 339-352: one read of state.index per column of every result; an
\* index past the end of the list read is an IndexError, a 500
RetrieveColumn(w) ==
    /\ th[w].pc = "t_out"
    /\ LET ix == index[1]
           t == th[w]
           rank == Len(t.out) + 1
           col == Column(ix, Len(t.cur) + 1)
           cur == Append(t.cur, col[t.sel[rank]])
           out == Append(t.out, RetrievedChunk(t.scores[rank], cur))
       IN th' = [th EXCEPT ![w] =
              IF t.sel[rank] > Len(col)
              THEN Finished(t, "server_error", <<>>)
              ELSE IF Len(cur) < Len(Columns)
                   THEN [t EXCEPT !.cur = cur, !.seen = @ \cup {ix}]
                   ELSE IF rank < Len(t.sel)
                        THEN [t EXCEPT !.cur = <<>>, !.out = out,
                                       !.seen = @ \cup {ix}]
                        ELSE [Finished(t, "ok", out) EXCEPT !.seen = t.seen \cup {ix}]]
    /\ UNCHANGED <<db, schema, ingest, model, index, loaded_at, boot, nreq>>

\* ------------------------------------------------------------------ health
\* health reads `state` once per entry of the dictionary it answers; the
\* entries read so far are kept in `out`.  Line 202, state.ready(), and line
\* 205, state.model (the model is not assigned once requests are served).
HealthBegin(w) ==
    /\ CanBegin(w)
    /\ th' = [th EXCEPT ![w] =
           [Idle EXCEPT !.op = "health", !.n = nreq + 1, !.pc = "h_loaded",
                        !.out = <<IF Ready THEN "ok" ELSE "starting", model>>]]
    /\ nreq' = nreq + 1
    /\ UNCHANGED <<db, schema, ingest, model, index, loaded_at, boot>>

\* line 206: state.index is not None
HealthLoaded(w) ==
    /\ th[w].pc = "h_loaded"
    /\ th' = [th EXCEPT ![w] = [th[w] EXCEPT !.pc = "h_stamp",
                                             !.out = Append(@, index # <<>>)]]
    /\ UNCHANGED <<db, schema, ingest, model, index, loaded_at, boot, nreq>>

\* line 207: state.loaded_at
HealthStamp(w) ==
    /\ th[w].pc = "h_stamp"
    /\ th' = [th EXCEPT ![w] = [th[w] EXCEPT !.pc = "h_chunks",
                                             !.out = Append(@, loaded_at)]]
    /\ UNCHANGED <<db, schema, ingest, model, index, loaded_at, boot, nreq>>

\* line 208: the row count of state.index, 0 without one (state.index is
\* tested and then read; it is never set back to None in between)
HealthChunks(w) ==
    /\ th[w].pc = "h_chunks"
    /\ th' = [th EXCEPT ![w] =
           [th[w] EXCEPT !.pc = "h_dim",
                         !.out = Append(@, IF index # <<>> THEN Chunks(index[1]) ELSE 0)]]
    /\ UNCHANGED <<db, schema, ingest, model, index, loaded_at, boot, nreq>>

\* line 209: the dimension of state.index, 0 without one; the response:
\* <<status, model_loaded, index_loaded, loaded_at, chunks, dim>>
HealthDim(w) ==
    /\ th[w].pc = "h_dim"
    /\ th' = [th EXCEPT ![w] =
           Finished(th[w], "ok",
                    Append(th[w].out, IF index # <<>> THEN IndexDim(index[1]) ELSE 0))]
    /\ UNCHANGED <<db, schema, ingest, model, index, loaded_at, boot, nreq>>

Next ==
    \/ StartupSchema
    \/ StartupModel
    \/ StartupLoad
    \/ IngestBegin
    \/ IngestCommit
    \/ \E w \in Workers :
         \/ StoreBegin(w)
         \/ StoreUpsert(w)
         \/ StoreReread(w)
         \/ ReloadBegin(w)
         \/ Load(w)
         \/ Install(w)
         \/ Stamp(w)
         \/ ReloadCount(w)
         \/ RetrieveBegin(w)
         \/ RetrieveMask(w)
         \/ RetrieveScore(w)
         \/ RetrieveColumn(w)
         \/ HealthBegin(w)
         \/ HealthLoaded(w)
         \/ HealthStamp(w)
         \/ HealthChunks(w)
         \/ HealthDim(w)

Spec == Init /\ [][Next]_vars

\* One request at a time: a request begins only when no other is running.
NextSeq == Next /\ Cardinality({w \in Workers : ~Free(w)}') <= 1

SpecSeq == Init /\ [][NextSeq]_vars

\* ------------------------------------------------- startup on any schema
\* The startup hook alone, on a table in any state of the migration: with or
\* without the unique index, with or without the priority column.
SchemaStates == [ux : BOOLEAN, priority : BOOLEAN]

LegacyChunks ==
    {[rel |-> FileA2.rel, kind |-> FileA2.kind, idx |-> i - 1,
      text |-> FileA2.chunks[i], sha |-> FileA2.sha] : i \in 1..Len(FileA2.chunks)}
    \cup
    {[rel |-> FileB.rel, kind |-> FileB.kind, idx |-> i - 1,
      text |-> FileB.chunks[i], sha |-> FileB.sha] : i \in 1..Len(FileB.chunks)}

\* the row of a chunk, as the ingestion writes it, with a priority where the
\* column exists
LegacyRow(c, pr) ==
    [id |-> DocId(c.rel, c.idx, c.sha),
     source_path |-> c.rel, kind |-> c.kind, chunk_index |-> c.idx,
     priority |-> pr, text |-> c.text,
     emb |-> Encode("cur", c.text), dim |-> Len(Encode("cur", c.text)),
     created_at |-> 0]

\* the tables of chunks of distinct natural keys, in any rowid order
LegacyTables(sch) ==
    LET rows == {LegacyRow(c, pr) : c \in LegacyChunks,
                   pr \in IF sch.priority THEN PRIORITIES ELSE {NoColumn}}
    IN {t \in UNION {[1..n -> rows] : n \in 0..Cardinality(LegacyChunks)} :
          UniqueKeys(t)}

InitSchema ==
    /\ schema \in SchemaStates
    /\ db \in LegacyTables(schema)
    /\ ingest = <<>>
    /\ model = FALSE
    /\ index = <<>>
    /\ loaded_at = -1
    /\ boot = "schema"
    /\ nreq = 0
    /\ th = [w \in Workers |-> Idle]

NextStartup == StartupSchema \/ StartupModel \/ StartupLoad

SpecSchema == InitSchema /\ [][NextStartup]_vars

\* ------------------------------------------------------------------ claims
MixedDims(rows) == \E i, j \in 1..Len(rows) : rows[i].dim # rows[j].dim

\* the snapshot has a row of this key with this text and priority
SnapshotHas(ix, key, text, pr) ==
    \E i \in 1..Len(ix.text) :
        /\ <<ix.source_path[i], ix.kind[i], ix.chunk_index[i]>> = key
        /\ ix.text[i] = text
        /\ ix.priority[i] = pr

\* the worker's store request answers ok in this step
StoreReturnsOk(w) ==
    th[w].op = "store" /\ th[w].pc = "stamp" /\ th'[w].pc = "done"

\* the row of the worker's key is still the one its request wrote
LastWriter(w) ==
    \E i \in 1..Len(db) : KeyOf(db[i]) = th[w].key /\ db[i].created_at = th[w].n

\* C1: when a store request returns ok and its key has not been written
\* again, the snapshot in place holds a row of that key with the text and
\* the priority the request wrote.
C1_ReadYourWrites ==
    [][\A w \in Workers :
         StoreReturnsOk(w) /\ LastWriter(w) =>
            /\ index' # <<>>
            /\ SnapshotHas(index'[1], th[w].key, th[w].text, th[w].pr)]_vars

\* C2: a retrieve computes its whole result from one value of state.index.
C2_SingleSnapshot ==
    \A w \in Workers : th[w].op = "retrieve" => Cardinality(th[w].seen) <= 1

\* the worker's retrieve request has read state.index at least once and a
\* rebuild has replaced the reference meanwhile
C2_Witness ==
    \E w \in Workers :
        th[w].op = "retrieve" /\ th[w].seen # {} /\ index # <<>> /\ index[1] \notin th[w].seen

\* sources the ingestion script rewrites
ScannedSources == UNION {{f[i].rel : i \in 1..Len(f)} : f \in Scans}

\* the worker's store request has read its row back (id, dim)
HasStored(w) ==
    /\ th[w].op = "store"
    /\ \/ th[w].pc \in {"load", "install", "stamp"}
       \/ th[w].pc = "done" /\ th[w].res \in {"ok", "stored_reload_failed"}

AnsweredOk(w, op) == th[w].op = op /\ th[w].pc = "done" /\ th[w].res = "ok"

\* the upsert of the worker's store request commits in this step
Commits(w) == th[w].pc = "s_upsert" /\ th'[w].pc = "s_reread"

\* C3: an upsert on a key the table holds keeps the row's id and overwrites
\* its priority, text, embedding, dim and created_at; two stores of one key
\* that answered ok carry the same id, the id of the key's row (for a source
\* no ingestion run deletes in between).
C3_UpsertKeepsId ==
    /\ [](\A a, b \in Workers :
            AnsweredOk(a, "store") /\ AnsweredOk(b, "store")
            /\ th[a].key = th[b].key /\ th[a].key[1] \notin ScannedSources
            => /\ th[a].body[1] = th[b].body[1]
               /\ \E i \in 1..Len(db) :
                    KeyOf(db[i]) = th[a].key /\ db[i].id = th[a].body[1])
    /\ [][\A w \in Workers :
            Commits(w) =>
              \A i \in RowsWithKey(db, th[w].key) :
                 /\ Len(db') = Len(db)
                 /\ db'[i].id = db[i].id
                 /\ KeyOf(db'[i]) = th[w].key
                 /\ db'[i].priority = th[w].pr
                 /\ db'[i].text = th[w].text
                 /\ db'[i].emb = th[w].vec
                 /\ db'[i].dim = Len(th[w].vec)
                 /\ db'[i].created_at = th[w].n]_vars

\* two stores of one key with different text and priority both answered ok
C3_Witness ==
    \E a, b \in Workers :
        /\ AnsweredOk(a, "store") /\ AnsweredOk(b, "store")
        /\ th[a].key = th[b].key /\ th[a].key[1] \notin ScannedSources
        /\ th[a].text # th[b].text /\ th[a].pr # th[b].pr
        /\ th[a].n < th[b].n
        /\ th[b].body[1] = Uuid(th[a].n)
        /\ \E i \in 1..Len(db) :
             KeyOf(db[i]) = th[a].key /\ db[i].text = th[b].text /\ db[i].id = Uuid(th[a].n)

\* the worker takes a store request in this step
TakesStore(w) == Free(w) /\ th'[w].op = "store" /\ th'[w].n = nreq + 1

\* C4: on a started service (the hook is over, the schema ensured, the
\* model loaded) whose table has no rows, a store request is not refused as
\* not ready.
C4_StoreOnEmptyStore ==
    [][\A w \in Workers :
         boot \in {"done", "failed"} /\ model /\ schema = CurSchema
         /\ db = <<>> /\ TakesStore(w)
         => th'[w].res # "not_ready"]_vars

\* request b is the retrieve that follows the successful store a with the
\* store's text as its query, unfiltered or filtered by the store's kind
RetrieveAfterStore(a, b) ==
    /\ AnsweredOk(a, "store")
    /\ th[b].op = "retrieve" /\ th[b].pc = "done"
    /\ th[b].n = th[a].n + 1
    /\ th[b].text = th[a].text
    /\ th[b].kind \in {"", th[a].key[2]}
    /\ th[b].res # "embedding_failed"

\* C5 as stated: the retrieve returns the stored chunk itself at rank 1 with
\* the score 1.0.
C5_SelfSimilarityOriginal ==
    \A a, b \in Workers :
        RetrieveAfterStore(a, b) =>
           /\ th[b].res = "ok"
           /\ th[b].body # <<>>
           /\ th[b].body[1].score = Unit * Unit
           /\ KeyOf(th[b].body[1]) = th[a].key

\* C5, amended: the retrieve returns at rank 1 a row with the stored text and
\* the score 1.0, which no result exceeds; it is the stored chunk itself when
\* no other row of the snapshot has that text.
C5_SelfSimilarity ==
    \A a, b \in Workers :
        RetrieveAfterStore(a, b) =>
           /\ th[b].res = "ok"
           /\ th[b].body # <<>>
           /\ th[b].body[1].score = Unit * Unit
           /\ th[b].body[1].text = th[a].text
           /\ \A r \in 1..Len(th[b].body) : th[b].body[r].score <= Unit * Unit
           /\ Cardinality({i \in 1..Chunks(index[1]) : index[1].text[i] = th[a].text}) = 1
              => KeyOf(th[b].body[1]) = th[a].key

\* such a retrieve over a snapshot of several rows with different scores
C5_Witness ==
    \E a, b \in Workers :
        /\ RetrieveAfterStore(a, b)
        /\ Chunks(index[1]) >= 3
        /\ Cardinality({i \in 1..Chunks(index[1]) : index[1].text[i] = th[a].text}) = 1
        /\ KeyOf(th[b].body[1]) = th[a].key

\* C6: while the table holds two rows of different dim, _load_index_from_db
\* raises "Inconsistent dim", a rebuild that reads the table ends in an
\* error and leaves state.index alone, the startup hook fails, and a service
\* without an index (and without a snapshot already built and about to be
\* assigned) stays without one.
C6_DimMismatchBlocksReadiness ==
    [][MixedDims(db) =>
         /\ LET r == BuildIndex(EnsureSchema(schema, db).rows)
            IN ~r.ok /\ r.err = "dim_mismatch"
         /\ \A w \in Workers :
              th[w].pc = "load" /\ th'[w].pc # "load" =>
                 /\ th'[w].pc = "done"
                 /\ th'[w].res \in {"reload_failed", "stored_reload_failed"}
                 /\ th'[w].err \in {"dim_mismatch", "db"}
                 /\ index' = index
         /\ boot = "load" /\ boot' # "load" => boot' = "failed" /\ index' = <<>>
         /\ (index = <<>> /\ \A w \in Workers : th[w].pc # "install") => index' = <<>>]_vars

\* a service started on such a table: the hook failed, a reload was answered
\* with the dimension error, there is no index
C6_Witness ==
    /\ MixedDims(db)
    /\ boot = "failed" /\ model /\ index = <<>>
    /\ \E w \in Workers :
         th[w].op = "reload" /\ th[w].pc = "done"
         /\ th[w].res = "reload_failed" /\ th[w].err = "dim_mismatch"

\* C7: a store request's commit on a table whose rows share one dim leaves a
\* table whose rows share one dim.
C7_SingleDim ==
    [][\A w \in Workers : Commits(w) /\ ~MixedDims(db) => ~MixedDims(db')]_vars

\* C8: the table never holds two rows of one (source_path, kind,
\* chunk_index).
C8_NaturalKeyUnique == UniqueKeys(db)

\* a store has updated a row it found, an ingestion run has replaced a
\* source at run time, a store has inserted a row
C8_Witness ==
    /\ \E w \in Workers : HasStored(w) /\ th[w].pc = "load" /\ th[w].stored[1] # Uuid(th[w].n)
    /\ \E i \in 1..Len(db) : db[i].id[1] # "uuid" /\ db[i].created_at > 0
    /\ \E i \in 1..Len(db) : db[i].id[1] = "uuid"

\* C9: a store request answered with an integrity or DB error has committed
\* nothing.
C9_PersistenceErrorWroteNothing ==
    \A w \in Workers :
        th[w].op = "store" /\ th[w].pc = "done"
        /\ th[w].res \in {"integrity_error", "db_error"}
        => ~th[w].committed

\* C10: when the rebuild of a store request fails, its upsert is committed,
\* the table, state.index and state.loaded_at stay as they are, and the
\* answer is "Stored but reload_index failed".
C10_RebuildFailureKeepsSnapshot ==
    [][\A w \in Workers :
         th[w].op = "store" /\ th[w].pc = "load" /\ th'[w].pc = "done" =>
            /\ th'[w].res = "stored_reload_failed"
            /\ th'[w].committed
            /\ db' = db
            /\ index' = index
            /\ loaded_at' = loaded_at]_vars

\* such an answer, with the row in the table and an index in place
C10_Witness ==
    \E w \in Workers :
        /\ th[w].op = "store" /\ th[w].pc = "done"
        /\ th[w].res = "stored_reload_failed" /\ th[w].committed
        /\ index # <<>> /\ loaded_at >= 0
        /\ \E i \in 1..Len(db) : KeyOf(db[i]) = th[w].key /\ db[i].created_at = th[w].n

\* the worker takes a reload request in this step
TakesReload(w) == Free(w) /\ th'[w].op = "reload" /\ th'[w].n = nreq + 1

\* C11: a reload request is refused as not ready exactly when the model is
\* not loaded, and is answered with the reload error when its rebuild fails;
\* neither step changes state.index or state.loaded_at.  A reload whose
\* rebuild succeeded assigns the snapshot it built, and the count it answers
\* is the row count of the snapshot in place when it answers.
C11_ReloadFailureKeepsSnapshot ==
    [][\A w \in Workers :
         /\ TakesReload(w) =>
               /\ index' = index /\ loaded_at' = loaded_at
               /\ IF model THEN th'[w].pc = "load"
                  ELSE th'[w].pc = "done" /\ th'[w].res = "not_ready"
         /\ th[w].op = "reload" /\ th[w].pc = "load" /\ th'[w].pc = "done" =>
               /\ th'[w].res = "reload_failed"
               /\ index' = index /\ loaded_at' = loaded_at
         /\ th[w].op = "reload" /\ th[w].pc = "install" /\ th'[w].pc = "stamp" =>
               /\ th[w].built # <<>>
               /\ index' = th[w].built
         /\ th[w].op = "reload" /\ th[w].pc = "stamp" /\ th'[w].pc # "stamp" =>
               /\ th'[w].pc = "r_count"
               /\ index' = index /\ loaded_at' = th[w].n
         /\ th[w].op = "reload" /\ th[w].pc = "r_count" /\ th'[w].pc = "done" =>
               /\ th'[w].res = "ok"
               /\ index' = index
               /\ th'[w].body = <<Len(index[1].text)>>]_vars

\* one reload answered ok with the count of the snapshot in place, which is
\* not the table's any more, and one answered with the reload error while a
\* snapshot is in place
C11_Witness ==
    \E a, b \in Workers :
        /\ AnsweredOk(a, "reload") /\ th[a].body = <<Len(index[1].text)>>
        /\ Len(db) # Len(index[1].text)
        /\ th[b].op = "reload" /\ th[b].pc = "done" /\ th[b].res = "reload_failed"
        /\ index # <<>>

\* the three early rejections of store
EarlyRejections == {"not_ready", "invalid_priority", "embedding_failed"}

\* C12: the step in which a store request is taken changes neither the table
\* nor state.index; it ends the request only with one of the early
\* rejections: not ready exactly when the service is not ready, otherwise
\* invalid priority exactly when the trimmed, lower-cased priority is not in
\* PRIORITIES, otherwise the embedding failure.
C12_EarlyRejectionNoEffect ==
    [][\A w \in Workers :
         TakesStore(w) =>
            /\ db' = db /\ schema' = schema
            /\ index' = index /\ loaded_at' = loaded_at
            /\ th'[w].pc \in {"done", "s_upsert"}
            /\ ~th'[w].committed
            /\ th'[w].pc = "done" => th'[w].res \in EarlyRejections
            /\ th'[w].res = "not_ready" <=> ~Ready
            /\ Ready =>
                 /\ th'[w].pr = Lower(Strip(th'[w].pr))
                 /\ th'[w].res = "invalid_priority" <=> th'[w].pr \notin PRIORITIES
                 /\ th'[w].res = "embedding_failed" => th'[w].pr \in PRIORITIES]_vars

\* on a ready service with rows, one store refused for its priority and one
\* for the embedding failure
C12_Witness ==
    /\ Ready /\ db # <<>>
    /\ \E a, b \in Workers :
         /\ th[a].op = "store" /\ th[a].pc = "done" /\ th[a].res = "invalid_priority"
         /\ th[b].op = "store" /\ th[b].pc = "done" /\ th[b].res = "embedding_failed"
         /\ th[b].pr = High

\* the rows of the table that carry this key
RowsOf(rows, k) == {rows[i] : i \in RowsWithKey(rows, k)}

\* natural keys of sources outside the directories the ingestion scans
UnscannedKeys == {r.key : r \in StoreRequests} \ {k \in {r.key : r \in StoreRequests} : k[1] \in ScannedSources}

\* C13: when two store requests of one key have both answered ok, the table
\* holds exactly one row of the key, written by one of the two, and both
\* responses carry that row's id; every commit of a store leaves the key's
\* one row with the committing request's text and priority, and no other
\* step changes the row, so the row is that of the commit that came last
\* (for a source no ingestion run rewrites).
C13_ConcurrentStoresSameKey ==
    /\ [](\A a, b \in Workers :
            a # b /\ AnsweredOk(a, "store") /\ AnsweredOk(b, "store")
            /\ th[a].key = th[b].key /\ th[a].key \in UnscannedKeys
            => /\ Cardinality(RowsWithKey(db, th[a].key)) = 1
               /\ \E i \in RowsWithKey(db, th[a].key), w \in {a, b} :
                    /\ db[i].created_at = th[w].n
                    /\ db[i].text = th[w].text
                    /\ db[i].priority = th[w].pr
                    /\ th[a].body[1] = db[i].id
                    /\ th[b].body[1] = db[i].id)
    /\ [][\A k \in UnscannedKeys :
            IF \E w \in Workers : Commits(w) /\ th[w].key = k
            THEN \E w \in Workers :
                    /\ Commits(w) /\ th[w].key = k
                    /\ Cardinality(RowsWithKey(db', k)) = 1
                    /\ \A i \in RowsWithKey(db', k) :
                          /\ db'[i].text = th[w].text
                          /\ db'[i].priority = th[w].pr
                          /\ db'[i].created_at = th[w].n
            ELSE RowsOf(db', k) = RowsOf(db, k)]_vars

\* two stores of one key with different texts have both answered ok, and the
\* row is the one of the request that began first: it committed last
C13_Witness ==
    \E a, b \in Workers :
        /\ AnsweredOk(a, "store") /\ AnsweredOk(b, "store")
        /\ th[a].key = th[b].key /\ th[a].key \in UnscannedKeys
        /\ th[a].n < th[b].n
        /\ th[a].text # th[b].text
        /\ th[a].body = th[b].body
        /\ \E i \in RowsWithKey(db, th[a].key) :
             db[i].created_at = th[a].n /\ db[i].text = th[a].text

\* the rows of the snapshot a retrieve with this kind filter searches
Candidates(ix, kind) == {i \in 1..Len(ix.kind) : kind = "" \/ ix.kind[i] = kind}

\* the worker's retrieve request, past its embedding, ends in this step
RetrieveEnds(w) ==
    /\ th[w].op = "retrieve"
    /\ th[w].pc \in {"t_mask", "t_score", "t_out"}
    /\ th'[w].pc = "done"

IsRowOf(r, ix, i, qv) ==
    /\ r.source_path = ix.source_path[i]
    /\ r.kind = ix.kind[i]
    /\ r.chunk_index = ix.chunk_index[i]
    /\ r.priority = ix.priority[i]
    /\ r.text = ix.text[i]
    /\ r.score = Dot(ix.emb_matrix[i], qv)

\* C15: a retrieve with a kind filter (one request at a time) that answers
\* rows answers only rows of that kind, each one a row of the snapshot with
\* that row's fields and score, no row twice; when no row of the snapshot
\* has the kind, the answer is the empty sequence and not an error.
C15_FilterCorrectness ==
    [][\A w \in Workers :
         RetrieveEnds(w) /\ th[w].kind # "" =>
            /\ th'[w].res = "ok" =>
                 \E pos \in [1..Len(th'[w].body) -> Candidates(index[1], th[w].kind)] :
                    /\ \A r, q \in 1..Len(th'[w].body) : pos[r] = pos[q] => r = q
                    /\ \A r \in 1..Len(th'[w].body) :
                          /\ th'[w].body[r].kind = th[w].kind
                          /\ IsRowOf(th'[w].body[r], index[1], pos[r], th[w].vec)
            /\ Candidates(index[1], th[w].kind) = {} =>
                 th'[w].res = "ok" /\ th'[w].body = <<>>]_vars

\* over a snapshot with rows of several kinds, one filtered retrieve answered
\* a row of its kind and one, whose kind no row has, answered nothing
C15_Witness ==
    \E a, b \in Workers :
        /\ AnsweredOk(a, "retrieve") /\ th[a].kind # "" /\ th[a].body # <<>>
        /\ th[a].body[1].kind = th[a].kind
        /\ \E i \in 1..Chunks(index[1]) : index[1].kind[i] # th[a].kind
        /\ AnsweredOk(b, "retrieve") /\ th[b].kind # "" /\ th[b].body = <<>>
        /\ Candidates(index[1], th[b].kind) = {}

\* C16: the rows a retrieve answers (one request at a time) are distinct
\* candidate rows of the snapshot in non-increasing score order, and no
\* candidate left out scores strictly higher than a row answered.
C16_TopKOrdering ==
    [][\A w \in Workers :
         RetrieveEnds(w) /\ th'[w].res = "ok" =>
            LET out == th'[w].body
                cand == Candidates(index[1], th[w].kind)
            IN /\ \A r, q \in 1..Len(out) : r < q => out[r].score >= out[q].score
               /\ \E pos \in [1..Len(out) -> cand] :
                    /\ \A r, q \in 1..Len(out) : pos[r] = pos[q] => r = q
                    /\ \A r \in 1..Len(out) : IsRowOf(out[r], index[1], pos[r], th[w].vec)
                    /\ \A i \in cand, r \in 1..Len(out) :
                          (\A q \in 1..Len(out) : pos[q] # i) =>
                             Dot(index[1].emb_matrix[i], th[w].vec) <= out[r].score]_vars

\* over a snapshot of three rows, one retrieve answered the rows in strictly
\* falling score order and one answered the best row alone, leaving out rows
\* that score lower
C16_Witness ==
    \E a, b \in Workers :
        /\ AnsweredOk(a, "retrieve") /\ Len(th[a].body) >= 3
        /\ th[a].body[1].score > th[a].body[2].score
        /\ th[a].body[2].score > th[a].body[3].score
        /\ AnsweredOk(b, "retrieve") /\ Len(th[b].body) = 1
        /\ Cardinality(Candidates(index[1], th[b].kind)) >= 3
        /\ \E i \in 1..Chunks(index[1]) :
             Dot(index[1].emb_matrix[i], Encode("cur", th[b].text)) < th[b].body[1].score

\* the position in the snapshot of a row answered (natural keys are unique
\* in a snapshot built from the table)
PosOf(ix, r) ==
    CHOOSE i \in 1..Len(ix.text) :
        /\ r.source_path = ix.source_path[i]
        /\ r.kind = ix.kind[i]
        /\ r.chunk_index = ix.chunk_index[i]

\* request b is the retrieve that follows retrieve a with the same query,
\* topk and kind, nothing having replaced the snapshot in between
SameRetrieveTwice(a, b) ==
    /\ AnsweredOk(a, "retrieve") /\ AnsweredOk(b, "retrieve")
    /\ th[b].n = th[a].n + 1
    /\ th[a].text = th[b].text /\ th[a].topk = th[b].topk /\ th[a].kind = th[b].kind

\* C17: rows of equal score are answered in the order of their positions in
\* the snapshot, and the same retrieve repeated over the unchanged snapshot
\* answers the same rows in the same order (one request at a time).
C17_DeterministicTieBreak ==
    /\ [][\A w \in Workers :
            RetrieveEnds(w) /\ th'[w].res = "ok" =>
               \A r, q \in 1..Len(th'[w].body) :
                  r < q /\ th'[w].body[r].score = th'[w].body[q].score =>
                     PosOf(index[1], th'[w].body[r]) < PosOf(index[1], th'[w].body[q])]_vars
    /\ [](\A a, b \in Workers : SameRetrieveTwice(a, b) => th[a].body = th[b].body)

\* the table after the migration: the same rows in the same order, every
\* field kept, the priority "normal" where there was no column
Migrated(sch, rows, rows2) ==
    /\ Len(rows2) = Len(rows)
    /\ \A i \in 1..Len(rows) :
         rows2[i] = [rows[i] EXCEPT !.priority =
                        IF sch.priority THEN rows[i].priority ELSE Normal]

\* C18: on a table in any state of the migration, _ensure_schema (unless a
\* statement of it fails) leaves the unique index and the priority column in
\* place and every row with all its fields, the priority "normal" where it
\* had none; a further call changes nothing, and so does the call that the
\* index load makes next.
C18_EnsureSchemaIdempotent ==
    [][/\ boot = "schema" =>
            LET e == EnsureSchema(schema, db)
                f == EnsureSchema(e.schema, e.rows)
            IN /\ e.ok /\ e.schema = CurSchema
               /\ Migrated(schema, db, e.rows)
               /\ f.ok /\ f.schema = e.schema /\ f.rows = e.rows
       /\ boot = "schema" /\ boot' = "model" =>
            /\ schema' = CurSchema
            /\ Migrated(schema, db, db')
       /\ boot = "load" /\ boot' # "load" => schema' = schema /\ db' = db]_vars

\* the hook has migrated a table and loaded it: rows in an order other than
\* the ingestion's, one with the priority it had, and an index built
C18_Witness ==
    /\ boot = "done" /\ schema = CurSchema /\ index # <<>>
    /\ Len(db) >= 3
    /\ db[1].source_path = FileB.rel
    /\ \E i, j \in 1..Len(db) : db[i].priority = High /\ db[j].priority = Normal

\* the parallel arrays and the matrix of a snapshot have one length, at
\* least 1, and the matrix rows one dimension
WellFormed(ix) ==
    /\ Len(ix.text) >= 1
    /\ Len(ix.source_path) = Len(ix.text)
    /\ Len(ix.kind) = Len(ix.text)
    /\ Len(ix.chunk_index) = Len(ix.text)
    /\ Len(ix.priority) = Len(ix.text)
    /\ Len(ix.emb_matrix) = Len(ix.text)
    /\ \A i \in 1..Len(ix.emb_matrix) : Len(ix.emb_matrix[i]) = Len(ix.emb_matrix[1])

\* the snapshot has one row per row of the table, in the table's order, with
\* the row's natural key, text and priority
Faithful(ix, rows) ==
    /\ WellFormed(ix)
    /\ Len(ix.text) = Len(rows)
    /\ \A i \in 1..Len(rows) :
         /\ <<ix.source_path[i], ix.kind[i], ix.chunk_index[i]>> = KeyOf(rows[i])
         /\ ix.text[i] = rows[i].text
         /\ ix.priority[i] = rows[i].priority

\* C19: a snapshot built (by the startup hook, a reload or a store) is
\* faithful to the table as it is at the read; building it leaves
\* state.index as it is; state.index changes only by the assignment of a
\* snapshot so built, as a whole; whatever is installed is well formed.
C19_SnapshotFaithful ==
    /\ [][/\ \A w \in Workers :
               /\ th[w].pc = "load" /\ th'[w].pc = "install" =>
                     /\ index' = index
                     /\ th'[w].built # <<>>
                     /\ Faithful(th'[w].built[1], db')
                     /\ \A i \in 1..Len(db) :
                           KeyOf(db'[i]) = KeyOf(db[i]) /\ db'[i].text = db[i].text
               /\ th[w].pc = "install" /\ th'[w].pc = "stamp" => index' = th[w].built
          /\ boot = "load" /\ boot' = "done" =>
                index' # <<>> /\ Faithful(index'[1], db') /\ Len(db') = Len(db)
          /\ index' # index =>
                \/ boot = "load" /\ boot' = "done"
                \/ \E w \in Workers : th[w].pc = "install" /\ th'[w].pc = "stamp"]_vars
    /\ [](/\ index # <<>> => WellFormed(index[1])
          /\ \A w \in Workers : th[w].built # <<>> => WellFormed(th[w].built[1]))

\* a rebuild has just assigned a snapshot of several rows, read from a
\* table that an ingestion run has changed since the read
C19_Witness ==
    \E w \in Workers :
        /\ th[w].pc = "stamp"
        /\ Chunks(index[1]) >= 2
        /\ Len(db) # Chunks(index[1])
        /\ ~Faithful(index[1], db)

\* the worker takes a retrieve request in this step
TakesRetrieve(w) == Free(w) /\ th'[w].op = "retrieve" /\ th'[w].n = nreq + 1

\* C20: no step sets state.model or state.index back to absent, so a ready
\* service stays ready, and a store or retrieve request taken by a ready
\* service is not refused as not ready.
C20_ReadinessMonotonic ==
    [][/\ model => model'
       /\ index # <<>> => index' # <<>>
       /\ Ready => Ready'
       /\ \A w \in Workers :
            Ready /\ (TakesStore(w) \/ TakesRetrieve(w)) => th'[w].res # "not_ready"]_vars

\* a ready service after a rebuild that failed, a later request answered ok
C20_Witness ==
    /\ Ready
    /\ \E a, b \in Workers :
         /\ th[a].pc = "done" /\ th[a].res \in {"reload_failed", "stored_reload_failed"}
         /\ th[b].pc = "done" /\ th[b].op \in {"store", "retrieve"}
         /\ th[b].res = "ok" /\ th[b].n > th[a].n

\* the worker's health request has answered; the entries of its response
HealthAnswered(w) == th[w].op = "health" /\ th[w].pc = "done"
IndexLoadedOf(body) == body[3]
ChunksOf(body) == body[5]
DimOf(body) == body[6]

\* the snapshot has at least one row and its vectors at least one component
NonEmpty(ix) == Len(ix.emb_matrix) >= 1 /\ Len(ix.emb_matrix[1]) >= 1

\* an installed or built snapshot is never empty, and health reports
\* chunks >= 1 and dim >= 1 whenever it reports the index loaded
SnapshotsNonEmpty ==
    /\ index # <<>> => NonEmpty(index[1])
    /\ \A w \in Workers :
         /\ th[w].built # <<>> => NonEmpty(th[w].built[1])
         /\ HealthAnswered(w) /\ IndexLoadedOf(th[w].body) =>
               ChunksOf(th[w].body) >= 1 /\ DimOf(th[w].body) >= 1

\* a rebuild that reads a table of no rows fails (as "rag_chunks is empty",
\* or on a statement of its own) and installs nothing
EmptyBuildFails ==
    /\ boot = "load" /\ db = <<>> /\ boot' # "load" =>
          boot' = "failed" /\ index' = index
    /\ \A w \in Workers :
          th[w].pc = "load" /\ db = <<>> /\ th'[w].pc # "load" =>
             /\ th'[w].pc = "done"
             /\ th'[w].res \in {"reload_failed", "stored_reload_failed"}
             /\ th'[w].err \in {"empty", "db"}
             /\ index' = index

====
